---- MODULE Spec2Model ----
(***************************************************************************)
(* Model of the Interslavic dictionary lookup tool (translate.py): the     *)
(* on-disk cache (SQLite store + metadata.json), init_database, search,    *)
(* needs_schema_update and the CLI flow of main.                           *)
(*                                                                         *)
(* Text is a sequence of characters.  An ASCII character is the one-letter *)
(* string; a non-ASCII character is named by its code point ("U+010D").    *)
(***************************************************************************)
EXTENDS Integers, Sequences, FiniteSets, TLC

VARIABLES
    db,     \* DB_PATH: the SQLite file (absent, or its tables and rows)
    meta,   \* META_PATH: metadata.json (absent, or its JSON object)
    pc,     \* position of the single caller / of main()
    call,   \* arguments of the call or CLI run in progress
    ret,    \* outcome of the last library function executed in this call
    hist    \* history: how the most recent init_database ended, and what
            \* it found at DB_PATH when it began

vars == <<db, meta, pc, call, ret, hist>>

-----------------------------------------------------------------------------
(* Bounds *)

\* longest list of search terms passed to search()
MaxTerms == 2

\* datetime.now() is read as one of the instants 1..MaxTime
MaxTime == 2

-----------------------------------------------------------------------------
(* Characters and text *)

\* c with caron, lower and upper case
c_caron == "U+010D"

C_CARON == "U+010C"

\* d with stroke
d_stroke == "U+0111"

\* Cyrillic ve, lower and upper case
cyr_ve == "U+0432"

CYR_VE == "U+0412"

NORMALIZATION_MAP ==
    "U+0119" :> <<"e">> @@ "U+0105" :> <<"a">> @@ "U+0173" :> <<"u">> @@
    "U+022F" :> <<"o">> @@ "U+0117" :> <<"e">> @@ "U+00E5" :> <<"a">> @@
    "U+0144" :> <<"n">> @@ "U+0165" :> <<"t">> @@ "U+013E" :> <<"l">> @@
    "U+0155" :> <<"r">> @@ "U+010F" :> <<"d">> @@
    "U+015B" :> <<"s">> @@ "U+017A" :> <<"z">> @@ "U+0107" :> <<"c">> @@
    "U+0111" :> <<"d", "j">> @@
    "U+010D" :> <<"c">> @@ "U+0161" :> <<"s">> @@ "U+017E" :> <<"z">> @@
    "U+011B" :> <<"e">> @@
    "U+010C" :> <<"C">> @@ "U+0160" :> <<"S">> @@ "U+017D" :> <<"Z">> @@
    "U+0118" :> <<"E">> @@ "U+0104" :> <<"A">> @@ "U+0172" :> <<"U">> @@
    "U+0143" :> <<"N">> @@ "U+0164" :> <<"T">> @@ "U+013D" :> <<"L">> @@
    "U+0154" :> <<"R">> @@ "U+010E" :> <<"D">> @@
    "U+015A" :> <<"S">> @@ "U+0179" :> <<"Z">> @@ "U+0106" :> <<"C">> @@
    "U+0110" :> <<"D", "J">>

SCHEMA_VERSION == 2

EXPORT_URL == "https://docs.google.com/spreadsheets/d/SHEET_ID/export?format=csv&gid=GID"

\* normalize_text: ''.join(NORMALIZATION_MAP.get(c, c) for c in text)
RECURSIVE normalize_text(_)
normalize_text(text) ==
    IF text = <<>> THEN <<>>
    ELSE (IF Head(text) \in DOMAIN NORMALIZATION_MAP
          THEN NORMALIZATION_MAP[Head(text)]
          ELSE <<Head(text)>>) \o normalize_text(Tail(text))

\* the ASCII letters: the only ones SQLite's LIKE folds
AsciiLower ==
    "A" :> "a" @@ "B" :> "b" @@ "C" :> "c" @@ "D" :> "d" @@ "E" :> "e" @@
    "F" :> "f" @@ "G" :> "g" @@ "H" :> "h" @@ "I" :> "i" @@ "J" :> "j" @@
    "K" :> "k" @@ "L" :> "l" @@ "M" :> "m" @@ "N" :> "n" @@ "O" :> "o" @@
    "P" :> "p" @@ "Q" :> "q" @@ "R" :> "r" @@ "S" :> "s" @@ "T" :> "t" @@
    "U" :> "u" @@ "V" :> "v" @@ "W" :> "w" @@ "X" :> "x" @@ "Y" :> "y" @@
    "Z" :> "z"

\* str.lower() on the letters of the model: ASCII, the upper-case keys of
\* NORMALIZATION_MAP, and Cyrillic ve
UnicodeLower ==
    AsciiLower @@
    "U+010C" :> "U+010D" @@ "U+0160" :> "U+0161" @@ "U+017D" :> "U+017E" @@
    "U+0118" :> "U+0119" @@ "U+0104" :> "U+0105" @@ "U+0172" :> "U+0173" @@
    "U+0143" :> "U+0144" @@ "U+0164" :> "U+0165" @@ "U+013D" :> "U+013E" @@
    "U+0154" :> "U+0155" @@ "U+010E" :> "U+010F" @@ "U+015A" :> "U+015B" @@
    "U+0179" :> "U+017A" @@ "U+0106" :> "U+0107" @@ "U+0110" :> "U+0111" @@
    "U+0412" :> "U+0432"

\* str.lower()
lower(text) ==
    [i \in 1..Len(text) |->
        IF text[i] \in DOMAIN UnicodeLower THEN UnicodeLower[text[i]] ELSE text[i]]

\* str.strip(): drop the white space at both ends
RECURSIVE strip(_)
strip(text) ==
    IF text = <<>> THEN <<>>
    ELSE IF Head(text) = " " THEN strip(Tail(text))
    ELSE IF text[Len(text)] = " " THEN strip(SubSeq(text, 1, Len(text) - 1))
    ELSE text

\* the character comparison of SQLite's LIKE: case is folded for ASCII only
LikeFold(c) ==
    IF c \in DOMAIN AsciiLower THEN AsciiLower[c] ELSE c

\* value LIKE pattern, as SQLite evaluates it (no ESCAPE clause):
\* '%' matches any run of characters, '_' matches exactly one character
RECURSIVE Like(_, _)
Like(pattern, value) ==
    IF pattern = <<>> THEN value = <<>>
    ELSE IF Head(pattern) = "%"
         THEN Like(Tail(pattern), value)
              \/ (value # <<>> /\ Like(pattern, Tail(value)))
    ELSE /\ value # <<>>
         /\ (Head(pattern) = "_" \/ LikeFold(Head(pattern)) = LikeFold(Head(value)))
         /\ Like(Tail(pattern), Tail(value))

Range(s) == {s[i] : i \in 1..Len(s)}

-----------------------------------------------------------------------------
(* Column and key names *)

ISV == <<"i", "s", "v">>

ISV_NORMALIZED ==
    <<"i", "s", "v", "_", "n", "o", "r", "m", "a", "l", "i", "z", "e", "d">>

MATCHED_TERM ==
    <<"_", "m", "a", "t", "c", "h", "e", "d", "_", "t", "e", "r", "m">>

-----------------------------------------------------------------------------
(* CSV documents, as csv.DictReader presents them: the field names of the  *)
(* header line and the records, each a list of cells that may be shorter   *)
(* or longer than the header.                                              *)

\* header "ISV, En ,ru"; the second record has no ru cell
DictA ==
    [fieldnames |-> << <<"I", "S", "V">>, <<" ", "E", "n", " ">>, <<"r", "u">> >>,
     rows |-> << << <<c_caron, "a">>, <<"a", "b">>, <<cyr_ve>> >>,
                 << <<d_stroke, cyr_ve>>, <<"A", "b">> >> >>]

\* no isv column; wildcard characters in the cells; an over-long record
DictB ==
    [fieldnames |-> << <<"e", "n">>, <<"P", "L">> >>,
     rows |-> << << <<"a", "_">>, <<c_caron>> >>,
                 << <<"b">>, <<>>, <<"x">> >>,
                 << <<"%">>, <<"a">> >> >>]

\* a single isv column with an upper-case diacritic
DictC ==
    [fieldnames |-> << <<"i", "s", "v">> >>,
     rows |-> << << <<C_CARON, "b">> >> >>]

\* an empty document: no header line
DictEmpty ==
    [fieldnames |-> <<>>, rows |-> <<>>]

\* two header cells that are the same name once lower-cased
DictDup ==
    [fieldnames |-> << <<"e", "n">>, <<"E", "N">> >>,
     rows |-> << << <<"a">>, <<"b">> >> >>]

\* a header cell that FTS5 reserves
DictRank ==
    [fieldnames |-> << <<"i", "s", "v">>, <<"r", "a", "n", "k">> >>,
     rows |-> << << <<"a">>, <<"b">> >> >>]

CsvNames == {"DictA", "DictB", "DictC", "DictEmpty", "DictDup", "DictRank"}

Csv(name) ==
    CASE name = "DictA" -> DictA
      [] name = "DictB" -> DictB
      [] name = "DictC" -> DictC
      [] name = "DictEmpty" -> DictEmpty
      [] name = "DictDup" -> DictDup
      [] name = "DictRank" -> DictRank

-----------------------------------------------------------------------------
(* The cache location: DB_PATH and META_PATH *)

\* DB_PATH does not exist
NoStore ==
    [exists |-> FALSE, tables |-> {}, columns |-> <<>>, rows |-> <<>>, fts |-> <<>>]

\* META_PATH does not exist
NoMeta ==
    [exists |-> FALSE]

\* DB_PATH.unlink(), done only when DB_PATH.exists()
Unlink(d) ==
    NoStore

\* sqlite3.connect(DB_PATH): opens the file, creating an empty one if absent
Connect(d) ==
    IF d.exists THEN d ELSE [NoStore EXCEPT !.exists = TRUE]

\* columns = [col.strip().lower() for col in columns]
NormalizeColumns(fieldnames) ==
    [j \in 1..Len(fieldnames) |-> lower(strip(fieldnames[j]))]

HasDuplicates(s) ==
    \E i, j \in 1..Len(s) : i < j /\ s[i] = s[j]

\* CREATE TABLE dictionary (<columns>, "isv_normalized" TEXT) is rejected
\* when the table exists or two of its columns have the same name
CreateTableFails(d, columns) ==
    \/ "dictionary" \in d.tables
    \/ HasDuplicates(columns \o <<ISV_NORMALIZED>>)

\* CREATE VIRTUAL TABLE dictionary_fts USING fts5(<columns>, ...) is rejected
\* for the column names FTS5 reserves
Fts5Reserved ==
    {<<"r", "a", "n", "k">>, <<"r", "o", "w", "i", "d">>}

CreateFtsFails(d, columns) ==
    \/ "dictionary_fts" \in d.tables
    \/ \E j \in 1..Len(columns) : columns[j] \in Fts5Reserved

\* row.get(col, "") or "" for a record read by csv.DictReader:
\* dict(zip(fieldnames, cells)), missing keys are None
RowGet(fieldnames, cells, col) ==
    LET n == IF Len(cells) < Len(fieldnames) THEN Len(cells) ELSE Len(fieldnames)
        J == {j \in 1..n : fieldnames[j] = col}
    IN IF J = {} THEN <<>>
       ELSE cells[CHOOSE j \in J : \A k \in J : k <= j]

\* isv_idx = columns.index('isv') if 'isv' in columns else None  (0 for None)
IsvIdx(columns) ==
    IF \E j \in 1..Len(columns) : columns[j] = ISV
    THEN CHOOSE j \in 1..Len(columns) :
            columns[j] = ISV /\ \A k \in 1..(j - 1) : columns[k] # ISV
    ELSE 0

\* the values bound to one INSERT: the cells in header order, then the
\* normalized ISV value
InsertValues(fieldnames, columns, cells) ==
    LET values == [j \in 1..Len(fieldnames) |-> RowGet(fieldnames, cells, fieldnames[j])]
        isv_idx == IsvIdx(columns)
        isv_value == IF isv_idx # 0 THEN values[isv_idx] ELSE <<>>
    IN [cells |-> values, isv_normalized |-> normalize_text(lower(isv_value))]

\* for row in reader: cursor.execute(insert_sql, values); row_count += 1
\* (the position of a row in the table is its rowid)
RECURSIVE InsertRows(_, _, _, _)
InsertRows(fieldnames, columns, reader, table) ==
    IF reader = <<>> THEN table
    ELSE InsertRows(fieldnames, columns, Tail(reader),
                    Append(table, InsertValues(fieldnames, columns, Head(reader))))

\* the rebuild command left out: the index of the new table stays empty
FtsRebuildOmitted(table) ==
    <<>>

\* INSERT INTO dictionary_fts(dictionary_fts) VALUES ("rebuild"): the index
\* is recomputed from the original columns of the rows of the content table
FtsRebuild(table) ==
    [i \in 1..Len(table) |-> table[i].cells]

\* the metadata object written by init_database
Metadata(now, row_count, columns) ==
    [exists |-> TRUE,
     last_download |-> now,
     source_url |-> EXPORT_URL,
     row_count |-> row_count,
     columns |-> columns,
     schema_version |-> SCHEMA_VERSION]

\* the faults of the environment during a load: the reader or an INSERT
\* raising at some row, the index rebuild failing, the commit failing
Faults == {"none", "insert", "rebuild", "commit"}

\* the statement at which init_database raises, "done" if it returns
FailingStep(d, csv, columns, fault) ==
    IF csv.fieldnames = <<>> THEN "header"
    ELSE IF CreateTableFails(d, columns) THEN "create_table"
    ELSE IF CreateFtsFails(d, columns) THEN "create_fts"
    ELSE IF fault = "insert" /\ csv.rows # <<>> THEN "insert"
    ELSE IF fault \in {"rebuild", "commit"} THEN fault
    ELSE "done"

\* the exception that reaches the caller
Raised(step) ==
    CASE step = "header" -> "ValueError"
      [] step \in {"create_table", "create_fts", "rebuild", "commit"} -> "OperationalError"
      [] step = "insert" -> "Error"
      [] step = "done" -> "ok"

\* the metadata written before the rows are inserted
WriteMetadataEarly(m0, step, now, row_count, columns) ==
    IF step \in {"insert", "rebuild", "commit", "done"}
    THEN Metadata(now, row_count, columns)
    ELSE m0

\* META_PATH.write_text(json.dumps(metadata)): the last statements of
\* init_database, reached only if nothing raised before
WriteMetadata(m0, step, now, row_count, columns) ==
    IF step = "done" THEN Metadata(now, row_count, columns) ELSE m0

\* init_database(csv_data), reading the clock as now and meeting fault.
\* The CREATE statements run in autocommit mode; the INSERTs and the rebuild
\* run in one transaction that is rolled back unless conn.commit() returns.
init_database(d0, m0, csv, fault, now) ==
    LET d1 == IF d0.exists THEN Unlink(d0) ELSE d0
        fieldnames == csv.fieldnames
        columns == NormalizeColumns(fieldnames)
        d2 == Connect(d1)
        d3 == [d2 EXCEPT !.tables = @ \cup {"dictionary"}, !.columns = columns]
        d4 == [d3 EXCEPT !.tables = @ \cup {"dictionary_fts"}]
        table == InsertRows(fieldnames, columns, csv.rows, d4.rows)
        d5 == [d4 EXCEPT !.rows = table, !.fts = FtsRebuild(table)]
        step == FailingStep(d2, csv, columns, fault)
        row_count == IF step = "done" THEN Len(csv.rows) ELSE 0
    IN [db |-> CASE step = "header" -> d1
                 [] step = "create_table" -> d2
                 [] step = "create_fts" -> d3
                 [] step \in {"insert", "rebuild", "commit"} -> d4
                 [] step = "done" -> d5,
        meta |-> WriteMetadata(m0, step, now, row_count, columns),
        step |-> step,
        outcome |-> Raised(step),
        row_count |-> row_count]

\* a missing schema_version read as the current version
StoredSchemaVersionCurrent(m) ==
    IF "schema_version" \in DOMAIN m THEN m.schema_version ELSE SCHEMA_VERSION

\* metadata.get("schema_version", 1)
StoredSchemaVersion(m) ==
    IF "schema_version" \in DOMAIN m THEN m.schema_version ELSE 1

\* the comparison of needs_schema_update reversed
needs_schema_update_reversed(m) ==
    IF ~m.exists THEN FALSE
    ELSE (IF "schema_version" \in DOMAIN m THEN m.schema_version ELSE 1) > SCHEMA_VERSION

\* needs_schema_update()
needs_schema_update(m) ==
    IF ~m.exists THEN FALSE
    ELSE StoredSchemaVersion(m) < SCHEMA_VERSION

-----------------------------------------------------------------------------
(* search *)

\* the existence check left out
StoreMissingUnchecked(d) ==
    FALSE

\* if not DB_PATH.exists(): raise FileNotFoundError
StoreMissing(d) ==
    ~d.exists

\* PRAGMA table_info(dictionary): the column names, none if no such table
TableInfo(d) ==
    IF "dictionary" \in d.tables THEN d.columns \o <<ISV_NORMALIZED>> ELSE <<>>

\* columns = [col for col in all_columns if col != 'isv_normalized']
SearchColumns(d) ==
    SelectSeq(TableInfo(d), LAMBDA col : col # ISV_NORMALIZED)

\* f"%{term}%"
Wrap(term) ==
    <<"%">> \o term \o <<"%">>

\* the ISV condition testing the raw column instead of the normalized one
LikeConditionRawIsv(columns, j, row, term) ==
    IF columns[j] = ISV
    THEN Like(Wrap(normalize_text(lower(term))), row.cells[j])
    ELSE Like(Wrap(term), row.cells[j])

\* the LIKE condition built for column j
LikeCondition(columns, j, row, term) ==
    IF columns[j] = ISV
    THEN Like(Wrap(normalize_text(lower(term))), row.isv_normalized)
    ELSE Like(Wrap(term), row.cells[j])

\* WHERE <condition> OR <condition> OR ...
Where(columns, row, term) ==
    \E j \in 1..Len(columns) : LikeCondition(columns, j, row, term)

\* the seen_rowids check left out
AlreadySeenIgnored(seen_rowids, rowid) ==
    FALSE

\* if rowid in seen_rowids: continue
AlreadySeen(seen_rowids, rowid) ==
    rowid \in seen_rowids

\* entry = {col: row[col] for col in columns}; entry["_matched_term"] = term
Entry(columns, row, term) ==
    [k \in Range(columns) \cup {MATCHED_TERM} |->
        IF k = MATCHED_TERM THEN term
        ELSE row.cells[CHOOSE j \in 1..Len(columns) : columns[j] = k]]

\* lang is None (<<>>) or a string (<<text>>); "if lang:" holds for a
\* non-empty string
Truthy(lang) ==
    lang # <<>> /\ lang[1] # <<>>

\* if lang: keep the entry iff lang_lower in entry and entry[lang_lower]
LangKeeps(entry, lang) ==
    IF Truthy(lang)
    THEN LET lang_lower == lower(lang[1])
         IN lang_lower \in DOMAIN entry /\ entry[lang_lower] # <<>>
    ELSE TRUE

\* for row in cursor.fetchall(): the rows that satisfy WHERE, in rowid order.
\* A result keeps the rowid next to the entry so that rows with equal cells
\* stay distinguishable; the program returns the entry alone.
RECURSIVE FetchLoop(_, _, _, _, _, _)
FetchLoop(d, columns, term, lang, rowid, acc) ==
    IF rowid > Len(d.rows) THEN acc
    ELSE IF ~Where(columns, d.rows[rowid], term) \/ AlreadySeen(acc.seen_rowids, rowid)
    THEN FetchLoop(d, columns, term, lang, rowid + 1, acc)
    ELSE LET entry == Entry(columns, d.rows[rowid], term)
         IN FetchLoop(d, columns, term, lang, rowid + 1,
                [results |-> IF LangKeeps(entry, lang)
                             THEN Append(acc.results, [rowid |-> rowid, entry |-> entry])
                             ELSE acc.results,
                 seen_rowids |-> acc.seen_rowids \cup {rowid}])

\* seen_rowids emptied at the start of every term's pass
RECURSIVE TermLoopFreshSeen(_, _, _, _, _)
TermLoopFreshSeen(d, columns, terms, lang, acc) ==
    IF terms = <<>> THEN acc
    ELSE TermLoopFreshSeen(d, columns, Tail(terms), lang,
            FetchLoop(d, columns, Head(terms), lang, 1,
                      [acc EXCEPT !.seen_rowids = {}]))

\* for term in terms: ...
RECURSIVE TermLoop(_, _, _, _, _)
TermLoop(d, columns, terms, lang, acc) ==
    IF terms = <<>> THEN acc
    ELSE TermLoop(d, columns, Tail(terms), lang,
                  FetchLoop(d, columns, Head(terms), lang, 1, acc))

\* search(terms, lang).  With no column the query text ends in "WHERE " and
\* the first term raises sqlite3.OperationalError.
search(d0, terms, lang) ==
    IF StoreMissing(d0)
    THEN [db |-> d0, outcome |-> "FileNotFoundError", results |-> <<>>]
    ELSE LET d1 == Connect(d0)
             columns == SearchColumns(d1)
         IN IF terms # <<>> /\ columns = <<>>
            THEN [db |-> d1, outcome |-> "OperationalError", results |-> <<>>]
            ELSE [db |-> d1, outcome |-> "ok",
                  results |-> TermLoop(d1, columns, terms, lang,
                                       [results |-> <<>>, seen_rowids |-> {}]).results]

-----------------------------------------------------------------------------
(* Inputs *)

\* "a", c-caron, "_%b", upper-case Cyrillic ve, ""
Terms ==
    {<<"a">>, <<c_caron>>, <<"_", "%", "b">>, <<CYR_VE>>, <<>>}

TermLists ==
    UNION {[1..n -> Terms] : n \in 0..MaxTerms}

\* None, "", "RU", "_matched_term"
Langs ==
    {<<>>, << <<>> >>, << <<"R", "U">> >>, <<MATCHED_TERM>>}

\* the words and --lang values given on the command line
MainWords ==
    {<<>>, << <<"a">> >>, << <<"_", "%", "b">>, <<c_caron>> >>}

MainLangs ==
    {<<>>, << <<"r", "u">> >>}

-----------------------------------------------------------------------------
(* State machine *)

\* forced stands for the message "Database schema update required."
NoCall ==
    [op |-> "none", words |-> <<>>, lang |-> <<>>, refresh |-> FALSE,
     info |-> FALSE, forced |-> FALSE, csv |-> "none", fault |-> "none"]

NoRet ==
    [op |-> "none", outcome |-> "none", step |-> "none", results |-> <<>>,
     flag |-> FALSE, row_count |-> 0, rc |-> 0]

NoHist ==
    [outcome |-> "none", prior |-> "none"]

\* the history after a load that ended with outcome: the store it found was
\* absent, the leftover of a failed load, or a complete store
Record(outcome) ==
    [outcome |-> IF outcome = "ok" THEN "ok" ELSE "failed",
     prior |-> IF ~db.exists THEN "absent"
               ELSE IF hist.outcome = "failed" THEN "leftover"
               ELSE "store"]

\* a store left by an earlier run
LegacyStore ==
    init_database(NoStore, NoMeta, DictC, "none", 0).db

\* metadata left by an earlier run: written before schema versions existed
\* (version 0 stands for no schema_version key), or by version 1, 2 or 3
LegacyMeta(version) ==
    LET m == [exists |-> TRUE, last_download |-> 0, source_url |-> EXPORT_URL,
              row_count |-> 1, columns |-> << ISV >>]
    IN IF version = 0 THEN m ELSE m @@ [schema_version |-> version]

\* the cache location when the program starts for the first time in a run
\* of this version: empty, or holding what an earlier run left there
Init ==
    /\ db \in {NoStore, LegacyStore}
    /\ meta \in {NoMeta} \cup {LegacyMeta(v) : v \in 0..(SCHEMA_VERSION + 1)}
    /\ pc = "idle"
    /\ call = NoCall
    /\ ret = NoRet
    /\ hist = NoHist

\* a caller invokes init_database(csv_data)
InitDatabaseCall(name, fault, now) ==
    /\ pc = "idle"
    /\ LET r == init_database(db, meta, Csv(name), fault, now)
       IN /\ db' = r.db
          /\ meta' = r.meta
          /\ ret' = [NoRet EXCEPT !.op = "init_database", !.outcome = r.outcome,
                                  !.step = r.step, !.row_count = r.row_count]
          /\ hist' = Record(r.outcome)
    /\ call' = [NoCall EXCEPT !.op = "init_database", !.csv = name, !.fault = fault]
    /\ pc' = "returned"

\* a caller invokes search(terms, lang)
SearchCall(terms, lang) ==
    /\ pc = "idle"
    /\ LET r == search(db, terms, lang)
       IN /\ db' = r.db
          /\ ret' = [NoRet EXCEPT !.op = "search", !.outcome = r.outcome,
                                  !.results = r.results]
    /\ call' = [NoCall EXCEPT !.op = "search", !.words = terms, !.lang = lang]
    /\ pc' = "returned"
    /\ UNCHANGED <<meta, hist>>

\* a caller invokes needs_schema_update()
NeedsSchemaUpdateCall ==
    /\ pc = "idle"
    /\ ret' = [NoRet EXCEPT !.op = "needs_schema_update", !.outcome = "ok",
                            !.flag = needs_schema_update(meta)]
    /\ call' = [NoCall EXCEPT !.op = "needs_schema_update"]
    /\ pc' = "returned"
    /\ UNCHANGED <<db, meta, hist>>

\* the caller takes the result or the exception
Return ==
    /\ pc = "returned"
    /\ pc' = "idle"
    /\ call' = NoCall
    /\ ret' = NoRet
    /\ UNCHANGED <<db, meta, hist>>

\* main() up to the refresh decision: --info, the missing-words check and
\* the schema check
MainStart(words, refresh, lang, info) ==
    /\ pc = "idle"
    /\ LET forced == db.exists /\ needs_schema_update(meta)
           args == [NoCall EXCEPT !.op = "main", !.words = words, !.lang = lang,
                                  !.refresh = refresh \/ forced, !.info = info,
                                  !.forced = forced]
       IN IF info
          THEN /\ call' = [args EXCEPT !.refresh = refresh]
               /\ ret' = NoRet
               /\ pc' = "main_exit"
          ELSE IF words = <<>> /\ ~refresh
          THEN /\ call' = [args EXCEPT !.refresh = refresh]
               /\ ret' = [NoRet EXCEPT !.rc = 1]
               /\ pc' = "main_exit"
          ELSE /\ call' = args
               /\ ret' = NoRet
               /\ pc' = IF args.refresh \/ ~db.exists THEN "main_refresh" ELSE "main_search"
    /\ UNCHANGED <<db, meta, hist>>

\* main(): download_csv() raises URLError
MainDownloadFails ==
    /\ pc = "main_refresh"
    /\ ret' = [NoRet EXCEPT !.op = "download_csv", !.outcome = "URLError", !.rc = 1]
    /\ pc' = "main_exit"
    /\ UNCHANGED <<db, meta, call, hist>>

\* main(): download_csv() returns a document and init_database() loads it
MainRefresh(name, fault, now) ==
    /\ pc = "main_refresh"
    /\ LET r == init_database(db, meta, Csv(name), fault, now)
       IN /\ db' = r.db
          /\ meta' = r.meta
          /\ ret' = [NoRet EXCEPT !.op = "init_database", !.outcome = r.outcome,
                                  !.step = r.step, !.row_count = r.row_count,
                                  !.rc = IF r.outcome = "ok" THEN 0 ELSE 1]
          /\ hist' = Record(r.outcome)
          /\ pc' = IF r.outcome = "ok" /\ call.words # <<>>
                   THEN "main_search" ELSE "main_exit"
    /\ call' = [call EXCEPT !.csv = name, !.fault = fault]

\* main(): results = search(args.words, args.lang), then the output
MainSearch ==
    /\ pc = "main_search"
    /\ LET r == search(db, call.words, call.lang)
       IN /\ db' = r.db
          /\ ret' = [NoRet EXCEPT !.op = "search", !.outcome = r.outcome,
                                  !.results = r.results,
                                  !.rc = IF r.outcome = "ok" THEN 0 ELSE 1]
    /\ pc' = "main_exit"
    /\ UNCHANGED <<meta, call, hist>>

\* main() returns and the process ends
MainExit ==
    /\ pc = "main_exit"
    /\ pc' = "idle"
    /\ call' = NoCall
    /\ ret' = NoRet
    /\ UNCHANGED <<db, meta, hist>>

Next ==
    \/ \E name \in CsvNames, fault \in Faults, now \in 1..MaxTime :
          InitDatabaseCall(name, fault, now)
    \/ \E terms \in TermLists, lang \in Langs : SearchCall(terms, lang)
    \/ NeedsSchemaUpdateCall
    \/ Return
    \/ \E words \in MainWords, refresh \in BOOLEAN, lang \in MainLangs, info \in BOOLEAN :
          MainStart(words, refresh, lang, info)
    \/ MainDownloadFails
    \/ \E name \in CsvNames, fault \in Faults, now \in 1..MaxTime :
          MainRefresh(name, fault, now)
    \/ MainSearch
    \/ MainExit

Spec == Init /\ [][Next]_vars

-----------------------------------------------------------------------------
(* Vocabulary of the properties *)

\* a step in which init_database ran
LoadStep ==
    pc \in {"idle", "main_refresh"} /\ ret'.op = "init_database"

\* a step in which search ran
SearchStep ==
    pc \in {"idle", "main_search"} /\ ret'.op = "search"

\* search has just returned a list; db is the store it read
SearchOk ==
    ret.op = "search" /\ ret.outcome = "ok"

LoadOk ==
    ret.op = "init_database" /\ ret.outcome = "ok"

LoadFailed ==
    ret.op = "init_database" /\ ret.outcome # "ok"

Rowids ==
    1..Len(db.rows)

\* the positions of the returned list that hold the row
Occurrences(rowid) ==
    {i \in 1..Len(ret.results) : ret.results[i].rowid = rowid}

\* the positions of the returned list that hold the row tagged with term
Tagged(rowid, term) ==
    {i \in Occurrences(rowid) : ret.results[i].entry[MATCHED_TERM] = term}

\* the positions of the term list whose term the row matches
MatchedAt(rowid) ==
    {k \in 1..Len(call.words) : Where(db.columns, db.rows[rowid], call.words[k])}

\* text contains sub as a literal, case-sensitive substring
Contains(text, sub) ==
    \E i \in 0..(Len(text) - Len(sub)) : SubSeq(text, i + 1, i + Len(sub)) = sub

\* text contains sub in the sense of LIKE '%sub%': the characters of sub
\* other than '%' occur in text in order, adjacent ones adjacently, where
\* '_' stands for any character and ASCII letters match in either case
LikeContains(text, sub) ==
    LET I == {i \in 1..Len(sub) : sub[i] # "%"}
        Same(a, b) ==
            \/ a = "_"
            \/ (IF a \in DOMAIN AsciiLower THEN AsciiLower[a] ELSE a)
                 = (IF b \in DOMAIN AsciiLower THEN AsciiLower[b] ELSE b)
    IN \E p \in [I -> 1..Len(text)] :
          /\ \A i \in I : Same(sub[i], text[p[i]])
          /\ \A i, k \in I : i < k => p[i] < p[k]
          /\ \A i \in I : (i + 1) \in I => p[i + 1] = p[i] + 1

\* the metadata records a schema version older than the code's
OlderSchema(m) ==
    m.exists /\ "schema_version" \in DOMAIN m /\ m.schema_version < SCHEMA_VERSION

\* d and m are what a complete load of csv leaves: the records of csv in
\* order, cell by cell, with absent cells empty, the normalized ISV value,
\* the index over the same rows, and metadata describing them
IsLoadOf(d, m, csv) ==
    LET header == csv.fieldnames
        cols == [j \in 1..Len(header) |-> lower(strip(header[j]))]
    IN /\ d.exists
       /\ d.tables = {"dictionary", "dictionary_fts"}
       /\ d.columns = cols
       /\ Len(d.rows) = Len(csv.rows)
       /\ \A i \in 1..Len(csv.rows) :
            /\ Len(d.rows[i].cells) = Len(header)
            /\ \A j \in 1..Len(header) :
                 d.rows[i].cells[j] =
                    IF j <= Len(csv.rows[i]) THEN csv.rows[i][j] ELSE <<>>
            /\ \A j \in 1..Len(header) :
                 cols[j] = ISV =>
                    d.rows[i].isv_normalized = normalize_text(lower(d.rows[i].cells[j]))
            /\ (\A j \in 1..Len(header) : cols[j] # ISV) =>
                    d.rows[i].isv_normalized = <<>>
       /\ d.fts = [i \in 1..Len(d.rows) |-> d.rows[i].cells]
       /\ m.exists
       /\ DOMAIN m = {"exists", "last_download", "source_url", "row_count",
                      "columns", "schema_version"}
       /\ m.row_count = Len(d.rows)
       /\ m.columns = cols
       /\ m.schema_version = SCHEMA_VERSION

-----------------------------------------------------------------------------
(* C1 *)

\* C1 (as claimed): after a load that failed at any step, the next search
\* fails with FileNotFoundError and returns no list.
C1_SearchAfterFailedLoadFindsNoStore ==
    (ret.op = "search" /\ hist.outcome = "failed")
        => ret.outcome = "FileNotFoundError"

-----------------------------------------------------------------------------
(* C2 *)

\* C2 (as claimed): with no language filter, a row appears in the returned
\* list once for each distinct term of the list that it matches, tagged with
\* that term.
C2_OncePerMatchedTerm ==
    (SearchOk /\ ~Truthy(call.lang)) =>
        \A rowid \in Rowids : \A k \in MatchedAt(rowid) :
            Cardinality(Tagged(rowid, call.words[k])) = 1

\* C2 (amended): search de-duplicates across terms.  A row appears in the
\* returned list at most once, and then tagged with the first term of the
\* list that it matches; with no language filter every row that matches
\* some term appears.
C2_OnceForFirstMatchedTerm ==
    SearchOk =>
        \A rowid \in Rowids :
            LET first == CHOOSE k \in MatchedAt(rowid) : \A n \in MatchedAt(rowid) : k <= n
            IN /\ Cardinality(Occurrences(rowid)) <= 1
               /\ Occurrences(rowid) # {} =>
                    /\ MatchedAt(rowid) # {}
                    /\ Tagged(rowid, call.words[first]) = Occurrences(rowid)
               /\ (MatchedAt(rowid) # {} /\ ~Truthy(call.lang)) =>
                    Occurrences(rowid) # {}

\* a row that matches two different terms of the list was returned once,
\* under the first of them
C2_Witness ==
    /\ SearchOk
    /\ \E rowid \in Rowids : \E k, n \in MatchedAt(rowid) :
          /\ k < n
          /\ call.words[k] # call.words[n]
          /\ \A x \in MatchedAt(rowid) : k <= x
          /\ Cardinality(Occurrences(rowid)) = 1
          /\ Tagged(rowid, call.words[n]) = {}

-----------------------------------------------------------------------------
(* C3 *)

\* C3 (as claimed): needs_schema_update() is true iff metadata exists, has
\* a schema_version, and that version is below SCHEMA_VERSION.
C3_TrueIffVersionPresentAndOlder ==
    ret.op = "needs_schema_update" =>
        (ret.flag <=> OlderSchema(meta))

\* C3 (amended): needs_schema_update() is true iff metadata exists and its
\* schema_version, read as 1 when the key is absent, is below
\* SCHEMA_VERSION.
C3_TrueIffVersionOlderOrAbsent ==
    ret.op = "needs_schema_update" =>
        (ret.flag <=>
            /\ meta.exists
            /\ \/ "schema_version" \notin DOMAIN meta /\ 1 < SCHEMA_VERSION
               \/ "schema_version" \in DOMAIN meta /\ meta.schema_version < SCHEMA_VERSION)

\* metadata without a schema_version was reported as needing an update
C3_Witness ==
    /\ ret.op = "needs_schema_update"
    /\ meta.exists
    /\ "schema_version" \notin DOMAIN meta
    /\ ret.flag

-----------------------------------------------------------------------------
(* C4 *)

\* C4 (as claimed): for one term and no language filter, a row is returned
\* iff the normalized ISV value contains normalize(lowercase(term)) or some
\* other cell contains the term, as literal case-sensitive substrings.
C4_LiteralSubstring ==
    (SearchOk /\ Len(call.words) = 1 /\ ~Truthy(call.lang)) =>
        \A rowid \in Rowids :
            (Occurrences(rowid) # {}) <=>
                \E j \in 1..Len(db.columns) :
                    IF db.columns[j] = ISV
                    THEN Contains(db.rows[rowid].isv_normalized,
                                  normalize_text(lower(call.words[1])))
                    ELSE Contains(db.rows[rowid].cells[j], call.words[1])

\* C4 (amended): for one term and no language filter, a row is returned iff
\* some column test succeeds, the test being SQL LIKE '%...%' containment
\* (ASCII letters match in either case, '_' in the term matches any one
\* character, '%' any run of characters): of normalize(lowercase(term)) in
\* the normalized ISV value for the isv column, of the term as typed in the
\* raw cell for every other column.
C4_LikeSubstring ==
    (SearchOk /\ Len(call.words) = 1 /\ ~Truthy(call.lang)) =>
        \A rowid \in Rowids :
            (Occurrences(rowid) # {}) <=>
                \E j \in 1..Len(db.columns) :
                    IF db.columns[j] = ISV
                    THEN LikeContains(db.rows[rowid].isv_normalized,
                                      normalize_text(lower(call.words[1])))
                    ELSE LikeContains(db.rows[rowid].cells[j], call.words[1])

\* a row was returned for a term that none of its cells contains literally:
\* only the folding of ASCII case or a wildcard made it match
C4_Witness ==
    /\ SearchOk /\ Len(call.words) = 1 /\ ~Truthy(call.lang)
    /\ \E rowid \in Rowids :
          /\ Occurrences(rowid) # {}
          /\ \A j \in 1..Len(db.columns) :
                /\ ~Contains(db.rows[rowid].cells[j], call.words[1])
                /\ ~Contains(db.rows[rowid].isv_normalized,
                             normalize_text(lower(call.words[1])))

-----------------------------------------------------------------------------
(* C5 *)

\* C5 (as claimed): with a language filter L, the rows returned are exactly
\* the rows that match some term and whose column lowercase(L) exists and
\* is not empty.
C5_FilterKeepsNonEmptyColumn ==
    (SearchOk /\ Truthy(call.lang)) =>
        {ret.results[i].rowid : i \in 1..Len(ret.results)} =
            {rowid \in Rowids :
                /\ MatchedAt(rowid) # {}
                /\ \E j \in 1..Len(db.columns) :
                      /\ db.columns[j] = lower(call.lang[1])
                      /\ db.rows[rowid].cells[j] # <<>>}

-----------------------------------------------------------------------------
(* C6 *)

\* C6: a load that succeeds leaves exactly the records of its document in
\* the store, whatever was there before, with the index over those rows and
\* metadata giving their count, the trimmed lower-case header and
\* SCHEMA_VERSION; repeated on its own result it changes nothing but the
\* timestamp.
C6_RefreshRebuilds ==
    [][(LoadStep /\ ret'.outcome = "ok") =>
          /\ IsLoadOf(db', meta', Csv(call'.csv))
          /\ IsLoadOf(db, meta, Csv(call'.csv)) =>
                /\ db' = db
                /\ [meta' EXCEPT !.last_download = 0] = [meta EXCEPT !.last_download = 0]
      ]_vars

\* a load succeeded where the leftover of a failed load had been
C6_Witness ==
    /\ LoadOk
    /\ hist.prior = "leftover"
    /\ db.rows # <<>>

-----------------------------------------------------------------------------
(* C7 *)

\* C7: in main, a store whose metadata records an older schema version is
\* never searched: the run that finds it goes to the refresh (or ends
\* without searching), the search is reached from the refresh only when
\* init_database succeeded, and a failed refresh ends the run with exit
\* code 1 and no results.
C7_OlderSchemaRefreshedBeforeSearch ==
    [][/\ (pc = "idle" /\ call'.op = "main" /\ db.exists /\ OlderSchema(meta)) =>
             /\ pc' \in {"main_refresh", "main_exit"}
             /\ pc' = "main_exit" =>
                   (call'.info \/ (call'.words = <<>> /\ ~call'.refresh))
       /\ (pc = "main_refresh" /\ pc' = "main_search") =>
             /\ LoadStep
             /\ ret'.outcome = "ok"
             /\ ~OlderSchema(meta')
       /\ (pc = "main_refresh" /\ pc' # pc /\ ret'.outcome # "ok") =>
             /\ pc' = "main_exit"
             /\ ret'.rc = 1
             /\ ret'.results = <<>>
       /\ (pc = "main_search" /\ pc' # pc) =>
             /\ SearchStep
             /\ ~(db.exists /\ OlderSchema(meta))
      ]_vars

\* a run that found an older schema refreshed and then searched
C7_Witness ==
    /\ pc = "main_exit"
    /\ call.forced
    /\ SearchOk
    /\ ret.results # <<>>
    /\ meta.schema_version = SCHEMA_VERSION

-----------------------------------------------------------------------------
(* C8 *)

\* C8: the returned list holds at most one entry per row and term, also
\* when the term matches the row through several columns.
C8_AtMostOncePerTerm ==
    SearchOk =>
        \A rowid \in Rowids : \A k \in 1..Len(call.words) :
            Cardinality(Tagged(rowid, call.words[k])) <= 1

\* a row matched a term through two columns and was returned once
C8_Witness ==
    /\ SearchOk
    /\ \E rowid \in Rowids : \E k \in 1..Len(call.words) :
          /\ \E i, j \in 1..Len(db.columns) :
                /\ i # j
                /\ LikeCondition(db.columns, i, db.rows[rowid], call.words[k])
                /\ LikeCondition(db.columns, j, db.rows[rowid], call.words[k])
          /\ Cardinality(Tagged(rowid, call.words[k])) = 1

-----------------------------------------------------------------------------
(* C9 *)

\* C9: with no store file, search fails with FileNotFoundError whatever the
\* terms, the filter and the metadata, and changes neither file.
C9_MissingStore ==
    [][(SearchStep /\ ~db.exists) =>
          /\ ret'.outcome = "FileNotFoundError"
          /\ ret'.results = <<>>
          /\ db' = db
          /\ meta' = meta
      ]_vars

\* search failed on a missing store while metadata was present
C9_Witness ==
    /\ ret.op = "search"
    /\ ret.outcome = "FileNotFoundError"
    /\ ~db.exists
    /\ meta.exists
    /\ call.words # <<>>

-----------------------------------------------------------------------------
(* C10 *)

\* C10: a load that fails leaves the metadata as it was; the metadata
\* changes only in a load that ran to its end, after the rows were
\* inserted, the index rebuilt and the transaction committed.
C10_MetadataWrittenLast ==
    [][LoadStep =>
          /\ ret'.outcome # "ok" => meta' = meta
          /\ meta' # meta =>
                /\ ret'.step = "done"
                /\ Len(db'.rows) = Len(Csv(call'.csv).rows)
                /\ db'.fts = [i \in 1..Len(db'.rows) |-> db'.rows[i].cells]
                /\ "dictionary_fts" \in db'.tables
      ]_vars

\* a load failed after a successful one: the store is gone, the metadata
\* of the successful load is still there
C10_Witness ==
    /\ LoadFailed
    /\ hist.prior = "store"
    /\ ~db.exists
    /\ meta.exists
    /\ meta.last_download >= 1

====
